---- MODULE Spec2Model ----
(***************************************************************************)
(* Model of millama's debounced draft-orchestration engine                 *)
(* (src/src/main.rs, src/src/llm.rs, src/src/config.rs).                   *)
(*                                                                         *)
(* Every `state.lock().unwrap()` block of the source is one atomic step;   *)
(* every `.await` on an external service separates two steps and has a     *)
(* nondeterministic outcome.  Tasks run on tokio's multi-threaded runtime  *)
(* (#[tokio::main]), so steps of different tasks interleave freely.        *)
(*                                                                         *)
(* The specifications of the module:                                       *)
(*   Spec          handle_update tasks, their debounce timer tasks and the *)
(*                 pipeline runs the timers start                          *)
(*   SpecGen       llm::generate_reply_with_fallback                       *)
(*   SpecApproval  Spec with the control-channel handlers                  *)
(*   SpecRephrase  regenerate_with_guidance, entered with given arguments  *)
(*   SpecLock      lock blocks and suspension points of every task kind    *)
(*   SpecPoll      poll_bot_updates and the control-channel service        *)
(*   SpecShutdown  Spec with the operator interrupt and the process exit   *)
(*   SpecOutage    SpecApproval with a polling loop that can end           *)
(***************************************************************************)
EXTENDS Integers, Sequences, FiniteSets, TLC

VARIABLES
  \* BotState (main.rs:30-40)
  pending_tasks,     \* HashMap<PeerId, AbortHandle>: peer -> timer task id
  draft_messages,    \* HashMap<String, (i64, String)>: token -> <<target_id, text>>
  pending_rephrase,  \* HashMap<i64, (i64, i64, Vec<ChatMessage>)>
  \* tasks of the debounce scheduler
  updates,           \* the handle_update tasks, in spawn order
  timers,            \* the tasks spawned at main.rs:259, in spawn order
  invocations,       \* peer -> number of process_ai_draft calls so far
  \* one call of generate_reply_with_fallback
  gen,
  \* draft pipeline and approval state machine
  runs,              \* process_ai_draft_with_guidance runs, in start order
  callbacks,         \* handle_bot_callback tasks, in dispatch order
  messages,          \* handle_bot_message tasks, in dispatch order
  bubbles,           \* control-channel messages, index = message_id
  sent,              \* messages sent into conversations, in send order
  \* the control-channel polling loop
  bot_updates,       \* what the control-channel service holds for getUpdates
  poller,            \* poll_bot_updates: its offset and position
  \* the BotState mutex and the tasks that use it
  mutex,
  \* run_client's main loop and the end of the process
  shutdown

bvars == <<pending_tasks, draft_messages, pending_rephrase>>
dvars == <<updates, timers, invocations>>
avars == <<runs, callbacks, messages, bubbles, sent>>
svars == <<bot_updates, poller, mutex, shutdown>>
vars  == <<pending_tasks, draft_messages, pending_rephrase, updates, timers,
           invocations, gen, runs, callbacks, messages, bubbles, sent,
           bot_updates, poller, mutex, shutdown>>

None == "None"

\* A handle_update task that has not spawned its timer yet.
NoHandle == 0

\* ------------------------------------------------------------------------
\* Bounds of the model
\* ------------------------------------------------------------------------
MaxUpdates == 2      \* inbound network updates delivered in one behaviour
MaxModels == 3       \* length of the configured model list
MaxEvents == 3       \* network updates plus control-channel updates
                     \* delivered in one behaviour
MaxBotUpdates == 3   \* control-channel updates the service receives
MaxTasks == 2        \* tasks that use the BotState mutex at once

\* Network updates taken and control-channel updates dispatched so far.
Events == Len(updates) + Len(callbacks) + Len(messages)

\* ------------------------------------------------------------------------
\* Generic map helpers (std::collections::HashMap)
\* ------------------------------------------------------------------------
EmptyMap == <<>>

HasKey(m, k) == k \in DOMAIN m

\* An insert that keeps the value of a key that is already present.
MapInsertIfAbsent(m, k, v) ==
  [x \in (DOMAIN m) \cup {k} |-> IF x \in DOMAIN m THEN m[x] ELSE v]

MapInsert(m, k, v) == [x \in (DOMAIN m) \cup {k} |-> IF x = k THEN v ELSE m[x]]

MapRemove(m, k) == [x \in (DOMAIN m) \ {k} |-> m[x]]

\* ------------------------------------------------------------------------
\* PeerId and the tracked-user registry (config.rs)
\* ------------------------------------------------------------------------
PeerIdUser(id) == <<"user", id>>

PeerIdChat(id) == <<"chat", id>>

bare_id(peer) == peer[2]

\* [[users]] of the configuration: two tracked users.
ConfigUsers ==
  << [id |-> 42, name |-> "Ann", system_prompt |-> "be terse"],
     [id |-> 43, name |-> "Bob", system_prompt |-> "be kind"] >>

peer_id(user) == PeerIdUser(user.id)

\* self.users.iter().map(|u| (u.peer_id(), u.clone())).collect()
\* (config.rs:97-99): of two entries with one id the later one stays.
users_map(list) ==
  [p \in {peer_id(list[i]) : i \in DOMAIN list} |->
     list[CHOOSE i \in DOMAIN list :
            /\ peer_id(list[i]) = p
            /\ \A j \in DOMAIN list : peer_id(list[j]) = p => j <= i]]

\* BotState.users, set once in run_client and never written again.
users == users_map(ConfigUsers)

\* Peers that inbound network messages come from: a tracked user and a
\* stranger.
InboundPeers == {PeerIdUser(42), PeerIdUser(7)}

\* ------------------------------------------------------------------------
\* Debounce scheduler: handle_update and the timer task it spawns
\* ------------------------------------------------------------------------

\* lock.users.get(&peer.id).cloned()  (main.rs:229-232)
IsTracked(peer) == HasKey(users, peer)

\* A timer task has elapsed once its sleep has returned.
Elapsed(t) == timers[t].elapsed

TimersOf(peer) == {t \in DOMAIN timers : timers[t].peer = peer}

\* The main loop takes a NewMessage update from the stream and spawns a
\* handle_update task, which looks the peer up in the registry.
\* `afterFire` records whether a timer of this peer had already elapsed
\* when the message arrived.
run_client_update(peer) ==
  /\ Len(updates) < MaxUpdates
  /\ Events < MaxEvents
  /\ updates' = Append(updates,
       [peer |-> peer,
        pc |-> IF IsTracked(peer) THEN "cancel" ELSE "done",
        handle |-> NoHandle,
        afterFire |-> \E t \in TimersOf(peer) : Elapsed(t)])
  /\ UNCHANGED <<bvars, timers, invocations, gen, avars, svars>>

\* AbortHandle::abort: a sleeping task is dropped without running again; a
\* task that is running or suspended inside the pipeline is flagged and
\* dropped at its next suspension; a finished task is left alone.
Abort(ts, h) ==
  IF ts[h].pc = "sleep" THEN [ts EXCEPT ![h].pc = "cancelled"]
  ELSE IF ts[h].pc \in {"woke", "pipeline"} THEN [ts EXCEPT ![h].aborted = TRUE]
  ELSE ts

\* Cancel any pending task for this user (main.rs:242-249).
handle_update_cancel(u) ==
  /\ updates[u].pc = "cancel"
  /\ LET peer == updates[u].peer IN
       /\ pending_tasks' = MapRemove(pending_tasks, peer)
       /\ timers' = IF HasKey(pending_tasks, peer)
                      THEN Abort(timers, pending_tasks[peer])
                      ELSE timers
  /\ updates' = [updates EXCEPT ![u].pc = "spawn"]
  /\ UNCHANGED <<draft_messages, pending_rephrase, invocations, gen, avars, svars>>

\* tokio::spawn of the timer task (main.rs:251-277).
handle_update_spawn(u) ==
  /\ updates[u].pc = "spawn"
  /\ timers' = Append(timers,
       [peer |-> updates[u].peer, pc |-> "sleep", elapsed |-> FALSE,
        aborted |-> FALSE, failed |-> FALSE])
  /\ updates' = [updates EXCEPT ![u].pc = "insert", ![u].handle = Len(timers) + 1]
  /\ UNCHANGED <<bvars, invocations, gen, avars, svars>>

\* lock.pending_tasks.insert(peer.id, handle.abort_handle())  (main.rs:279-282)
handle_update_insert(u) ==
  /\ updates[u].pc = "insert"
  /\ pending_tasks' = MapInsert(pending_tasks, updates[u].peer, updates[u].handle)
  /\ updates' = [updates EXCEPT ![u].pc = "done"]
  /\ UNCHANGED <<draft_messages, pending_rephrase, timers, invocations, gen, avars, svars>>

\* sleep(debounce_seconds) returns and the task is polled (main.rs:260).
timer_wake(t) ==
  /\ timers[t].pc = "sleep"
  /\ timers' = [timers EXCEPT ![t].pc = "woke", ![t].elapsed = TRUE]
  /\ UNCHANGED <<bvars, updates, invocations, gen, avars, svars>>

\* No call of generate_reply_with_fallback is being followed.
GenIdle == [pc |-> "idle"]

\* Option<i64>: None and Some(x)
NoOffset == <<"None", 0>>

SomeOffset(x) == <<"Some", x>>

\* poll_bot_updates before its first get_updates call:
\* `let mut offset: Option<i64> = None` (main.rs:441).  `call` is the
\* latest get_updates call (the offset passed and how many updates had
\* been taken by then), `delivered` the updates the calls returned, `taken`
\* the updates the for loop has taken, `dispatched` the handler tasks
\* spawned, all in order; `stopped_after` the number of bubbles that had
\* been published when the loop ended.
PollerStart ==
  [pc |-> "get_updates", offset |-> NoOffset, batch |-> <<>>,
   call |-> [offset |-> NoOffset, after |-> 0],
   delivered |-> <<>>, taken |-> <<>>, dispatched |-> <<>>,
   stopped_after |-> 0]

\* The control-channel service holds no update and none is confirmed.
ServiceStart == [log |-> <<>>, confirmed |-> 0]

\* The BotState mutex is free and no task that uses it is being followed.
MutexFree == [holder |-> 0, tasks |-> <<>>]

\* The state of what the other specifications follow.
InitRest ==
  /\ messages = <<>>
  /\ bot_updates = ServiceStart
  /\ poller = PollerStart
  /\ mutex = MutexFree
  /\ shutdown = "running"

Init ==
  /\ pending_tasks = EmptyMap
  /\ draft_messages = EmptyMap
  /\ pending_rephrase = EmptyMap
  /\ updates = <<>>
  /\ timers = <<>>
  /\ invocations = [p \in InboundPeers \cup DOMAIN users |-> 0]
  /\ gen = GenIdle
  /\ runs = <<>>
  /\ callbacks = <<>>
  /\ bubbles = <<>>
  /\ sent = <<>>
  /\ InitRest

\* ------------------------------------------------------------------------
\* Generation client: llm::generate_reply_with_fallback
\* ------------------------------------------------------------------------
ModelNames == {"A", "B", "C"}

\* What one backend call can come to (generate_reply_with_model,
\* llm.rs:98-149): the request cannot be sent, the body of an error answer
\* cannot be read, a 429, another non-success status, a success body that
\* cannot be decoded, a body without choices, or a completion.
BackendOutcomes ==
  {"ok", "send_error", "read_error", "rate_limit", "api_error", "decode_error",
   "no_choices"}

RECURSIVE SeqsUpTo(_, _)
SeqsUpTo(S, n) ==
  IF n = 0 THEN {<<>>}
  ELSE LET shorter == SeqsUpTo(S, n - 1) IN
         shorter \cup {Append(q, x) : q \in {r \in shorter : Len(r) = n - 1}, x \in S}

ModelLists == SeqsUpTo(ModelNames, MaxModels)

\* Result<String>: the text a model returned at its call, or an error.
Ok(model, call) == <<"Ok", "text", model, call>>

Err(kind, model, call) == <<"Err", kind, model, call>>

ConfigError == <<"Err", "No models configured", "", 0>>

AllFailedError == <<"Err", "All models failed", "", 0>>

NoError == <<"None", "", "", 0>>

NoResult == <<"Pending", "", "", 0>>

\* for (idx, model) in models.iter().enumerate()  (llm.rs:69)
ModelAtReversed(models, idx) == models[Len(models) + 1 - idx]

ModelAt(models, idx) == models[idx]

\* last_error = Some(e)  (llm.rs:88-91)
RecordFirstError(last, e) == IF last = NoError THEN e ELSE last

RecordError(last, e) == e

\* if models.is_empty() { return Err(..) }; let mut last_error = None;
gen_check_empty ==
  /\ gen.pc = "start"
  /\ gen' = IF gen.models = <<>>
              THEN [gen EXCEPT !.pc = "done", !.result = ConfigError]
              ELSE [gen EXCEPT !.pc = "loop", !.idx = 1]
  /\ UNCHANGED <<bvars, dvars, avars, svars>>

\* One iteration of the loop: a call of generate_reply_with_model and the
\* match on its result (llm.rs:69-93).
gen_attempt(outcome) ==
  /\ gen.pc = "loop"
  /\ gen.idx <= Len(gen.models)
  /\ LET model == ModelAt(gen.models, gen.idx)
         call == Len(gen.calls) + 1
         called == Append(gen.calls, [model |-> model, outcome |-> outcome])
     IN gen' = IF outcome = "ok"
                 THEN [gen EXCEPT !.calls = called, !.pc = "done",
                                  !.result = Ok(model, call)]
                 ELSE [gen EXCEPT !.calls = called, !.idx = @ + 1,
                                  !.last_error =
                                     RecordError(@, Err(outcome, model, call))]
  /\ UNCHANGED <<bvars, dvars, avars, svars>>

\* Err(last_error.unwrap_or_else(|| anyhow!("All models failed")))  (llm.rs:95)
gen_exhausted ==
  /\ gen.pc = "loop"
  /\ gen.idx > Len(gen.models)
  /\ gen' = [gen EXCEPT !.pc = "done",
                        !.result = IF gen.last_error = NoError
                                     THEN AllFailedError ELSE gen.last_error]
  /\ UNCHANGED <<bvars, dvars, avars, svars>>

\* A call of generate_reply_with_fallback with any model list of the bound.
InitGen ==
  /\ pending_tasks = EmptyMap
  /\ draft_messages = EmptyMap
  /\ pending_rephrase = EmptyMap
  /\ updates = <<>>
  /\ timers = <<>>
  /\ invocations = [p \in InboundPeers \cup DOMAIN users |-> 0]
  /\ gen \in {[pc |-> "start", models |-> m, idx |-> 0, calls |-> <<>>,
               last_error |-> NoError, result |-> NoResult] : m \in ModelLists}
  /\ runs = <<>>
  /\ callbacks = <<>>
  /\ bubbles = <<>>
  /\ sent = <<>>
  /\ InitRest

NextGen ==
  \/ gen_check_empty
  \/ \E outcome \in BackendOutcomes : gen_attempt(outcome)
  \/ gen_exhausted

SpecGen == InitGen /\ [][NextGen]_vars

GenRunning == gen.pc \in {"loop", "done"}

\* The calls made so far are the first entries of the list, in list order.
CallsArePrefix ==
  /\ Len(gen.calls) <= Len(gen.models)
  /\ \A i \in DOMAIN gen.calls : gen.calls[i].model = gen.models[i]

\* C4: with a non-empty list the backend is called for the models in list
\* order, each list entry at most once, and the first successful call ends
\* the scan: its text is returned and no later model is called.
C4_FirstSuccessInOrder ==
  (GenRunning /\ gen.models # <<>>) =>
    /\ CallsArePrefix
    /\ \A i \in DOMAIN gen.calls :
         gen.calls[i].outcome = "ok" =>
           /\ i = Len(gen.calls)
           /\ gen.pc = "done"
           /\ gen.result = Ok(gen.models[i], i)
    /\ (gen.pc = "done" /\ gen.result[1] = "Ok") =>
         /\ gen.calls # <<>>
         /\ gen.calls[Len(gen.calls)].outcome = "ok"

\* [A, B, C] with A and B failing and C succeeding returns C's text.
C4_Witness ==
  /\ gen.pc = "done"
  /\ gen.models = <<"A", "B", "C">>
  /\ Len(gen.calls) = 3
  /\ gen.calls[1].outcome # "ok"
  /\ gen.calls[2].outcome # "ok"
  /\ gen.result = Ok("C", 3)

\* C5: an empty list fails with the configuration error and no backend call;
\* a non-empty list whose every call fails is scanned once, one call per
\* entry, and the error returned is that of the last entry's call.
C5_EmptyOrLastError ==
  gen.pc = "done" =>
    /\ gen.models = <<>> => (gen.result = ConfigError /\ gen.calls = <<>>)
    /\ (gen.models # <<>> /\ \A i \in DOMAIN gen.calls : gen.calls[i].outcome # "ok") =>
         /\ Len(gen.calls) = Len(gen.models)
         /\ CallsArePrefix
         /\ LET n == Len(gen.models) IN
              gen.result = Err(gen.calls[n].outcome, gen.models[n], n)

\* [A, B, C] all failing, with different failures: C's error is returned.
C5_Witness ==
  /\ gen.pc = "done"
  /\ gen.models = <<"A", "B", "C">>
  /\ Len(gen.calls) = 3
  /\ gen.calls[1].outcome = "rate_limit"
  /\ gen.calls[2].outcome = "api_error"
  /\ gen.result = Err("no_choices", "C", 3)


\* ------------------------------------------------------------------------
\* Draft pipeline: process_ai_draft_with_guidance
\* ------------------------------------------------------------------------

\* lock.bot_self_id, the operator's own id, set at login (main.rs:145-152);
\* drafts are published to the chat of that id.
bot_self_id == 1000

\* lock.config.settings.history_limit
history_limit == 2

\* format!("approve:{}", target_id) and its siblings (main.rs:407-409)
Token(action, target_id) == <<action, ":", target_id>>

\* data.starts_with("approve:")
starts_with(data, action) == data[1] = action /\ data[2] = ":"

\* data.strip_prefix("reject:")?.parse()
parse_target(data) == data[3]

\* What iter_messages can yield, newest first (text, outgoing).
RawHistories ==
  { << >>,
    << [text |-> "", outgoing |-> FALSE] >>,
    << [text |-> "hi", outgoing |-> FALSE], [text |-> "", outgoing |-> FALSE],
       [text |-> "yo", outgoing |-> TRUE], [text |-> "old", outgoing |-> FALSE] >> }

\* .limit(history_limit)
Limit(raw, n) == SubSeq(raw, 1, IF Len(raw) < n THEN Len(raw) ELSE n)

\* The history loop without the test for empty texts.
RECURSIVE history_buf_keep_empty(_, _)
history_buf_keep_empty(msgs, buf) ==
  IF msgs = <<>> THEN buf
  ELSE LET msg == Head(msgs) IN
         history_buf_keep_empty(Tail(msgs),
           <<[role |-> IF msg.outgoing THEN "assistant" ELSE "user",
              content |-> msg.text]>> \o buf)

\* The while-let loop (main.rs:344-356): skip empty texts, tag the role,
\* insert at the front, so the buffer ends oldest first.
RECURSIVE history_buf(_, _)
history_buf(msgs, buf) ==
  IF msgs = <<>> THEN buf
  ELSE LET msg == Head(msgs) IN
         history_buf(Tail(msgs),
           IF msg.text = "" THEN buf
           ELSE <<[role |-> IF msg.outgoing THEN "assistant" ELSE "user",
                   content |-> msg.text]>> \o buf)

\* The text generated by run r; every run generates at most one.
response_text(r) == <<"reply", r>>

\* A run or handler that holds no text yet.
NoText == <<"none", 0>>

\* format!("*AI Draft Suggestion for @{}*\n\n{}\n\n", user.name, response_text)
draft_message(name, text) == <<"draft", name, text>>

\* Variant of timer_fire that calls the pipeline only when the peer was still
\* registered (an "am I still current" test the source does not make).
timer_fire_if_registered(t) ==
  /\ timers[t].pc = "woke"
  /\ pending_tasks' = MapRemove(pending_tasks, timers[t].peer)
  /\ IF HasKey(pending_tasks, timers[t].peer)
       THEN /\ invocations' = [invocations EXCEPT ![timers[t].peer] = @ + 1]
            /\ timers' = [timers EXCEPT ![t].pc = "pipeline"]
            /\ runs' = Append(runs,
                 [peer |-> timers[t].peer, user |-> users[timers[t].peer],
                  timer |-> t, guidance |-> None, pc |-> "fetch", err |-> None,
                  fetched |-> <<>>, history |-> <<>>, text |-> NoText,
                  message_id |-> 0])
       ELSE /\ timers' = [timers EXCEPT ![t].pc = "done"]
            /\ UNCHANGED <<invocations, runs>>
  /\ UNCHANGED <<draft_messages, pending_rephrase, updates, gen, callbacks,
                 messages, bubbles, sent, svars>>

\* The timer removes the entry of its peer and calls process_ai_draft, which
\* reads the configuration and runs up to its first await (main.rs:262-273,
\* 304-340).
timer_fire(t) ==
  /\ timers[t].pc = "woke"
  /\ pending_tasks' = MapRemove(pending_tasks, timers[t].peer)
  /\ invocations' = [invocations EXCEPT ![timers[t].peer] = @ + 1]
  /\ timers' = [timers EXCEPT ![t].pc = "pipeline"]
  /\ runs' = Append(runs,
       [peer |-> timers[t].peer, user |-> users[timers[t].peer], timer |-> t,
        guidance |-> None, pc |-> "fetch", err |-> None, fetched |-> <<>>,
        history |-> <<>>, text |-> NoText, message_id |-> 0])
  /\ UNCHANGED <<draft_messages, pending_rephrase, updates, gen, callbacks,
                 messages, bubbles, sent, svars>>

\* The task of the run was aborted: it is dropped where it is suspended.
Aborted(r) == timers[runs[r].timer].aborted

\* process_ai_draft has returned to the timer task, which logs an error
\* and ends (main.rs:271-277).
TimerEnds(r, failed) ==
  [timers EXCEPT ![runs[r].timer].pc = "done", ![runs[r].timer].failed = failed]

PipelineFailures ==
  {"Could not resolve peer to fetch history", "fetch failed",
   "Failed to generate AI reply"}

\* resolve_peer, the history loop and generate_reply_with_fallback
\* (main.rs:337-398): none of them touches shared state.  `raw` is what the
\* network returns, `failure` the step that failed (None: no step failed).
\* An error or an empty history returns to the timer task, which ends.
pipeline_prepare(r, raw, failure) ==
  /\ runs[r].pc = "fetch"
  /\ ~Aborted(r)
  /\ LET fetched == Limit(raw, history_limit)
         buf == history_buf(fetched, <<>>) IN
       runs' =
         IF failure \in {"Could not resolve peer to fetch history", "fetch failed"}
           THEN [runs EXCEPT ![r].pc = "failed", ![r].err = failure]
         ELSE IF buf = <<>>
           THEN [runs EXCEPT ![r].pc = "skipped", ![r].fetched = fetched]
         ELSE IF failure = "Failed to generate AI reply"
           THEN [runs EXCEPT ![r].pc = "failed", ![r].err = failure,
                             ![r].fetched = fetched, ![r].history = buf]
         ELSE [runs EXCEPT ![r].pc = "publish", ![r].fetched = fetched,
                           ![r].history = buf, ![r].text = response_text(r)]
  /\ timers' = IF runs'[r].pc = "publish" THEN timers
               ELSE TimerEnds(r, runs'[r].pc = "failed")
  /\ UNCHANGED <<bvars, updates, invocations, gen, messages, svars, callbacks,
                 bubbles, sent>>

\* pipeline_publish with the draft recorded when the request is issued.
pipeline_publish_early_store(r, ok) ==
  /\ runs[r].pc = "publish"
  /\ LET target_id == bare_id(runs[r].peer) IN
       /\ draft_messages' = MapInsert(draft_messages, Token("approve", target_id),
                                      <<target_id, runs[r].text>>)
       /\ IF ok
            THEN /\ bubbles' = Append(bubbles,
                      [chat |-> bot_self_id,
                       text |-> draft_message(runs[r].user.name, runs[r].text),
                       buttons |-> {Token("approve", target_id),
                                    Token("rephrase", target_id),
                                    Token("reject", target_id)}])
                 /\ runs' = [runs EXCEPT ![r].pc = "publishing",
                                         ![r].message_id = Len(bubbles) + 1]
            ELSE /\ bubbles' = bubbles
                 /\ runs' = [runs EXCEPT ![r].pc = "publishing"]
  /\ UNCHANGED <<pending_tasks, pending_rephrase, updates, timers, invocations,
                 gen, messages, svars, callbacks, sent>>

\* bot_client.send_message_with_buttons(bot_self_id, draft_message, buttons)
\* is called (main.rs:400-418): the task, running since the generation
\* returned, issues the request and suspends at the await of main.rs:419.
\* A request the service accepts puts a new bubble on the control channel,
\* whose id is kept in message_id until the task takes the response.
pipeline_publish(r, ok) ==
  /\ runs[r].pc = "publish"
  /\ LET target_id == bare_id(runs[r].peer) IN
       IF ok
         THEN /\ bubbles' = Append(bubbles,
                   [chat |-> bot_self_id,
                    text |-> draft_message(runs[r].user.name, runs[r].text),
                    buttons |-> {Token("approve", target_id),
                                 Token("rephrase", target_id),
                                 Token("reject", target_id)}])
              /\ runs' = [runs EXCEPT ![r].pc = "publishing",
                                      ![r].message_id = Len(bubbles) + 1]
         ELSE /\ bubbles' = bubbles
              /\ runs' = [runs EXCEPT ![r].pc = "publishing"]
  /\ UNCHANGED <<bvars, updates, timers, invocations, gen, messages, svars,
                 callbacks, sent>>

\* The await of main.rs:419 returns: the message id, and the task goes on
\* to its last lock block; or the error ("Failed to send draft via bot",
\* main.rs:420), which returns to the timer task, which ends.
pipeline_publish_returns(r) ==
  /\ runs[r].pc = "publishing"
  /\ ~Aborted(r)
  /\ IF runs[r].message_id # 0
       THEN /\ runs' = [runs EXCEPT ![r].pc = "store"]
            /\ timers' = timers
       ELSE /\ runs' = [runs EXCEPT ![r].pc = "failed",
                                    ![r].err = "Failed to send draft via bot"]
            /\ timers' = TimerEnds(r, TRUE)
  /\ UNCHANGED <<bvars, updates, invocations, gen, messages, svars, callbacks,
                 bubbles, sent>>

\* pipeline_store recording the draft but not the rephrase context.
pipeline_store_draft_only(r) ==
  /\ runs[r].pc = "store"
  /\ LET target_id == bare_id(runs[r].peer) IN
       draft_messages' = MapInsert(draft_messages, Token("approve", target_id),
                                   <<target_id, runs[r].text>>)
  /\ runs' = [runs EXCEPT ![r].pc = "done"]
  /\ timers' = TimerEnds(r, FALSE)
  /\ UNCHANGED <<pending_tasks, pending_rephrase, updates, invocations, gen,
                 messages, svars, callbacks, bubbles, sent>>

\* Store draft message and history for later retrieval (main.rs:422-429);
\* process_ai_draft returns Ok and the timer task ends.
pipeline_store(r) ==
  /\ runs[r].pc = "store"
  /\ LET target_id == bare_id(runs[r].peer) IN
       /\ draft_messages' = MapInsert(draft_messages, Token("approve", target_id),
                                      <<target_id, runs[r].text>>)
       /\ pending_rephrase' = MapInsert(pending_rephrase, target_id,
                                <<bot_self_id, runs[r].message_id, runs[r].history>>)
  /\ runs' = [runs EXCEPT ![r].pc = "done"]
  /\ timers' = TimerEnds(r, FALSE)
  /\ UNCHANGED <<pending_tasks, updates, invocations, gen, messages, svars,
                 callbacks, bubbles, sent>>

\* An aborted task is dropped where it is suspended inside the pipeline
\* (resolve_peer, the history fetch, the generation, or the publish whose
\* request it has issued): it is not polled again.
timer_pipeline_cancelled(t) ==
  /\ timers[t].pc = "pipeline"
  /\ timers[t].aborted
  /\ \E r \in DOMAIN runs :
       /\ runs[r].timer = t
       /\ runs[r].pc \in {"fetch", "publishing"}
       /\ runs' = [runs EXCEPT ![r].pc = "cancelled"]
  /\ timers' = [timers EXCEPT ![t].pc = "cancelled"]
  /\ UNCHANGED <<bvars, updates, invocations, gen, callbacks, messages, bubbles,
                 sent, svars>>

Next ==
  \/ \E peer \in InboundPeers : run_client_update(peer)
  \/ \E u \in DOMAIN updates : handle_update_cancel(u)
  \/ \E u \in DOMAIN updates : handle_update_spawn(u)
  \/ \E u \in DOMAIN updates : handle_update_insert(u)
  \/ \E t \in DOMAIN timers : timer_wake(t)
  \/ \E t \in DOMAIN timers : timer_fire(t)
  \/ \E r \in DOMAIN runs, raw \in RawHistories,
        failure \in PipelineFailures \cup {None} : pipeline_prepare(r, raw, failure)
  \/ \E r \in DOMAIN runs, ok \in BOOLEAN : pipeline_publish(r, ok)
  \/ \E r \in DOMAIN runs : pipeline_publish_returns(r)
  \/ \E r \in DOMAIN runs : pipeline_store(r)
  \/ \E t \in DOMAIN timers : timer_pipeline_cancelled(t)

Spec == Init /\ [][Next]_vars

\* ------------------------------------------------------------------------
\* Properties of the debounce scheduler
\* ------------------------------------------------------------------------
TrackedPeers == DOMAIN users

\* No handle_update task, timer or pipeline run is in flight.
Quiescent ==
  /\ \A u \in DOMAIN updates : updates[u].pc = "done"
  /\ \A t \in DOMAIN timers : timers[t].pc \in {"done", "cancelled"}

ArrivalsOf(peer) == {u \in DOMAIN updates : updates[u].peer = peer}

\* Every message of the peer arrived before any timer of the peer elapsed.
Rapid(peer) == \A u \in ArrivalsOf(peer) : ~updates[u].afterFire

\* Sleeping, not fired, not aborted.
LiveTimers(peer) == {t \in TimersOf(peer) : timers[t].pc = "sleep"}

\* The peer got exactly two messages and the timer of the first had elapsed
\* when the second arrived.
TwoSpaced(peer) ==
  /\ Cardinality(ArrivalsOf(peer)) = 2
  /\ \E u \in ArrivalsOf(peer) :
       /\ updates[u].afterFire
       /\ \E v \in ArrivalsOf(peer) : v < u

\* C1: N >= 1 messages of a tracked peer that all arrive before any of its
\* timers elapses cause exactly one call of process_ai_draft for that peer,
\* whatever the interleaving of the handle_update and timer tasks.
C1_BurstInvokesOnce ==
  \A p \in TrackedPeers :
    (Quiescent /\ ArrivalsOf(p) # {} /\ Rapid(p)) => invocations[p] = 1

\* C2: at most one live debounce timer per peer, and a registered handle of
\* a peer with a live timer is the handle of that timer.
C2_OneLiveTimerPerPeer ==
  \A p \in InboundPeers :
    /\ Cardinality(LiveTimers(p)) <= 1
    /\ \A t \in LiveTimers(p) : HasKey(pending_tasks, p) => pending_tasks[p] = t

\* C3: two messages of a tracked peer, the second arriving after the timer
\* of the first has elapsed, cause exactly two calls of process_ai_draft:
\* never more, and two once every task has ended.
C3_SpacedInvokesTwice ==
  \A p \in TrackedPeers :
    TwoSpaced(p) =>
      /\ invocations[p] <= 2
      /\ Quiescent => invocations[p] = 2

\* The first pipeline run is still in flight when the second message has
\* arrived and its timer has fired.
C3_Witness ==
  /\ TwoSpaced(PeerIdUser(42))
  /\ Len(timers) = 2
  /\ timers[1].pc = "pipeline"
  /\ timers[2].pc \in {"pipeline", "done"}
  /\ invocations[PeerIdUser(42)] = 2


\* ------------------------------------------------------------------------
\* Approval state machine: poll_bot_updates and handle_bot_callback
\* ------------------------------------------------------------------------
RephrasePrompt == <<"prompt", "Rephrase Mode">>

RejectedMarker == <<"marker", "Rejected">>

\* The control-channel service delivers a press of a button of bubble m
\* (at least once, so also again after the bubble was edited) and the
\* polling loop spawns a handle_bot_callback task for it (main.rs:449-460).
\* `stale` records whether a newer draft of the same target had already
\* been stored when the press was delivered.
poll_bot_updates_callback(m, data) ==
  /\ Events < MaxEvents
  /\ data \in bubbles[m].buttons
  /\ callbacks' = Append(callbacks,
       [data |-> data, message_id |-> m, chat |-> bubbles[m].chat,
        pc |-> "answer", err |-> None, found |-> "unknown",
        target_id |-> 0, text |-> NoText,
        stale |-> \E r \in DOMAIN runs :
                    /\ runs[r].pc = "done"
                    /\ bare_id(runs[r].peer) = parse_target(data)
                    /\ runs[r].message_id > m])
  /\ UNCHANGED <<bvars, dvars, gen, messages, svars, runs, bubbles, sent>>

\* lock.draft_messages.remove(data)  (main.rs:497-500)
PeekDraft(drafts, data) == drafts

TakeDraft(drafts, data) == MapRemove(drafts, data)

\* lock.pending_rephrase.remove(&target_id) of the reject branch (main.rs:567)
KeepRephrase(pending, target_id) == pending

RejectRephrase(pending, target_id) == MapRemove(pending, target_id)

\* answer_callback_query returns and the handler runs to its next await
\* (main.rs:484-509, 528-542, 553-568): the approve branch takes the draft
\* out of the table, the reject branch removes both entries.
handle_bot_callback_answer(c, ok) ==
  /\ callbacks[c].pc = "answer"
  /\ LET data == callbacks[c].data IN
       IF ~ok
         THEN /\ callbacks' = [callbacks EXCEPT ![c].pc = "failed",
                                 ![c].err = "Failed to answer callback query"]
              /\ UNCHANGED <<draft_messages, pending_rephrase>>
       ELSE IF starts_with(data, "approve")
         THEN /\ draft_messages' = TakeDraft(draft_messages, data)
              /\ callbacks' =
                   IF HasKey(draft_messages, data)
                     THEN [callbacks EXCEPT ![c].pc = "send", ![c].found = "yes",
                             ![c].target_id = draft_messages[data][1],
                             ![c].text = draft_messages[data][2]]
                     ELSE [callbacks EXCEPT ![c].pc = "failed", ![c].found = "no",
                             ![c].err = "Draft message not found"]
              /\ UNCHANGED pending_rephrase
       ELSE IF starts_with(data, "rephrase")
         THEN /\ callbacks' = [callbacks EXCEPT ![c].pc = "edit",
                                 ![c].target_id = parse_target(data),
                                 ![c].text = RephrasePrompt]
              /\ UNCHANGED <<draft_messages, pending_rephrase>>
       ELSE LET target_id == parse_target(data)
                reject_key == Token("approve", target_id) IN
              /\ starts_with(data, "reject")
              /\ draft_messages' = MapRemove(draft_messages, reject_key)
              /\ pending_rephrase' = RejectRephrase(pending_rephrase, target_id)
              /\ callbacks' = [callbacks EXCEPT ![c].pc = "edit",
                                 ![c].found = IF HasKey(draft_messages, reject_key)
                                                THEN "yes" ELSE "no",
                                 ![c].target_id = target_id,
                                 ![c].text = RejectedMarker]
  /\ UNCHANGED <<pending_tasks, dvars, gen, messages, svars, runs, bubbles, sent>>

\* handle_bot_callback_send sending the most recently generated text
\* instead of the text it took from the table.
handle_bot_callback_send_latest(c, outcome) ==
  /\ callbacks[c].pc = "send"
  /\ IF outcome = "ok"
       THEN /\ sent' = Append(sent, [target |-> PeerIdUser(callbacks[c].target_id),
                                     text |-> runs[Len(runs)].text, by |-> c])
            /\ callbacks' = [callbacks EXCEPT ![c].pc = "edit"]
       ELSE /\ sent' = sent
            /\ callbacks' = [callbacks EXCEPT ![c].pc = "failed", ![c].err = outcome]
  /\ UNCHANGED <<bvars, dvars, gen, messages, svars, runs, bubbles>>

\* client.resolve_peer(target) and client.send_message(target_peer, text)
\* (main.rs:504-513): on success the text is in the target's conversation.
handle_bot_callback_send(c, outcome) ==
  /\ callbacks[c].pc = "send"
  /\ IF outcome = "ok"
       THEN /\ sent' = Append(sent, [target |-> PeerIdUser(callbacks[c].target_id),
                                     text |-> callbacks[c].text, by |-> c])
            /\ callbacks' = [callbacks EXCEPT ![c].pc = "edit"]
       ELSE /\ sent' = sent
            /\ callbacks' = [callbacks EXCEPT ![c].pc = "failed", ![c].err = outcome]
  /\ UNCHANGED <<bvars, dvars, gen, messages, svars, runs, bubbles>>

\* handle_bot_callback_edit with every branch going on to the cleanup of
\* the approve branch.
handle_bot_callback_edit_cleanup_all(c, ok) ==
  /\ callbacks[c].pc = "edit"
  /\ IF ok
       THEN /\ bubbles' = [bubbles EXCEPT ![callbacks[c].message_id].text =
                                            callbacks[c].text]
            /\ callbacks' = [callbacks EXCEPT ![c].pc = "cleanup"]
       ELSE /\ bubbles' = bubbles
            /\ callbacks' = [callbacks EXCEPT ![c].pc = "failed",
                                              ![c].err = "Failed to edit message"]
  /\ UNCHANGED <<bvars, dvars, gen, messages, svars, runs, sent>>

\* bot_client.edit_message_text(message.chat.id, message.message_id, text)
\* (main.rs:515-519, 543-550, 570-578) takes effect on the pressed bubble
\* or fails.
handle_bot_callback_edit(c, ok) ==
  /\ callbacks[c].pc = "edit"
  /\ IF ok
       THEN /\ bubbles' = [bubbles EXCEPT ![callbacks[c].message_id].text =
                                            callbacks[c].text]
            /\ callbacks' = [callbacks EXCEPT ![c].pc =
                 IF starts_with(callbacks[c].data, "approve") THEN "cleanup"
                 ELSE "done"]
       ELSE /\ bubbles' = bubbles
            /\ callbacks' = [callbacks EXCEPT ![c].pc = "failed",
                                              ![c].err = "Failed to edit message"]
  /\ UNCHANGED <<bvars, dvars, gen, messages, svars, runs, sent>>

\* Clean up rephrase state (main.rs:521-527).
handle_bot_callback_cleanup(c) ==
  /\ callbacks[c].pc = "cleanup"
  /\ pending_rephrase' = MapRemove(pending_rephrase, callbacks[c].target_id)
  /\ callbacks' = [callbacks EXCEPT ![c].pc = "done"]
  /\ UNCHANGED <<pending_tasks, draft_messages, dvars, gen, messages, svars, runs, bubbles, sent>>

\* ------------------------------------------------------------------------
\* Operator guidance: handle_bot_message and regenerate_with_guidance
\* ------------------------------------------------------------------------


\* message.text of a control-channel message (None or empty: no text).
MessageTexts == {"", "mention the weekend"}

\* message.from.id: the operator or somebody else.
Senders == {bot_self_id, 7}

\* The orders in which a HashMap can yield the keys S.
KeyOrders(S) ==
  {s \in [1..Cardinality(S) -> S] : \A i, j \in DOMAIN s : s[i] = s[j] => i = j}

\* The polling loop takes an update that carries a message and spawns a
\* handle_bot_message task for it (main.rs:461-472).
poll_bot_updates_message(text, from) ==
  /\ Events < MaxEvents
  /\ messages' = Append(messages,
       [text |-> text, from |-> from, chat |-> bot_self_id, pc |-> "start",
        err |-> None, targets |-> <<>>, target_id |-> 0, popped |-> FALSE,
        history |-> <<>>, run |-> 0])
  /\ UNCHANGED <<bvars, dvars, gen, svars, runs, callbacks, bubbles, sent>>

\* The handler's filters and its snapshot of the pending targets
\* (main.rs:590-616): a message without text or not from the operator is
\* ignored, and so is any message while nothing is pending.
handle_bot_message_snapshot(m, keys) ==
  /\ messages[m].pc = "start"
  /\ keys \in KeyOrders(DOMAIN pending_rephrase)
  /\ messages' =
       IF messages[m].text = "" \/ messages[m].from # bot_self_id \/ keys = <<>>
         THEN [messages EXCEPT ![m].pc = "ignored"]
         ELSE [messages EXCEPT ![m].pc = "pop", ![m].targets = keys]
  /\ UNCHANGED <<bvars, dvars, gen, svars, runs, callbacks, bubbles, sent>>

\* lock.users.get(&PeerId::chat(target_id))  (main.rs:630-631)
RephraseUserKey(target_id) == PeerIdChat(target_id)

\* lock.config.ai.base_system_prompt: not configured.
base_system_prompt == None

\* The system prompt regenerate_with_guidance builds (main.rs:704-721).
guidance_system_prompt(base, user, guidance) ==
  (IF base = None THEN <<>> ELSE <<base, "\n\n">>)
    \o <<user.system_prompt, "\n\nAdditional guidance: ", guidance>>

\* One round of the for loop up to its await (main.rs:619-656): pop the
\* target's entry, look the user up, and call regenerate_with_guidance,
\* which reads the configuration, builds the prompt and requests a
\* generation (main.rs:682-733).  A missing entry or user ends the handler
\* through `?`.
handle_bot_message_pop(m) ==
  /\ messages[m].pc = "pop"
  /\ LET target_id == Head(messages[m].targets)
         key == RephraseUserKey(target_id) IN
       IF ~HasKey(pending_rephrase, target_id)
         THEN /\ messages' = [messages EXCEPT ![m].pc = "failed",
                                ![m].target_id = target_id,
                                ![m].err = "No pending rephrase"]
              /\ UNCHANGED <<pending_rephrase, runs>>
       ELSE IF ~HasKey(users, key)
         THEN /\ pending_rephrase' = MapRemove(pending_rephrase, target_id)
              /\ messages' = [messages EXCEPT ![m].pc = "failed",
                                ![m].target_id = target_id, ![m].popped = TRUE,
                                ![m].history = pending_rephrase[target_id][3],
                                ![m].err = "User not found"]
              /\ UNCHANGED runs
       ELSE /\ pending_rephrase' = MapRemove(pending_rephrase, target_id)
            /\ runs' = Append(runs,
                 [peer |-> PeerIdUser(target_id), user |-> users[key],
                  timer |-> 0, guidance |-> messages[m].text, pc |-> "regenerate",
                  prompt |-> guidance_system_prompt(base_system_prompt,
                               users[key], messages[m].text),
                  err |-> None, history |-> pending_rephrase[target_id][3],
                  text |-> NoText, message_id |-> 0])
            /\ messages' = [messages EXCEPT ![m].pc = "regen",
                              ![m].target_id = target_id, ![m].popped = TRUE,
                              ![m].history = pending_rephrase[target_id][3],
                              ![m].run = Len(runs) + 1]
  /\ UNCHANGED <<pending_tasks, draft_messages, dvars, gen, svars, callbacks,
                 bubbles, sent>>

\* format!("*AI Draft Suggestion for @{}*\n_(Rephrased)_\n\n{}\n\n", ...)
rephrased_draft_message(name, text) == <<"draft", name, "_(Rephrased)_", text>>

\* format!("Failed to regenerate: {}", e)
error_message(e) == <<"error", "Failed to regenerate", e>>

\* generate_reply_with_fallback returns to regenerate_with_guidance
\* (main.rs:725-734).
regenerate_generate(r, ok) ==
  /\ runs[r].pc = "regenerate"
  /\ runs' =
       IF ok THEN [runs EXCEPT ![r].pc = "republish", ![r].text = response_text(r)]
       ELSE [runs EXCEPT ![r].pc = "failed",
                         ![r].err = "Failed to generate AI reply with guidance"]
  /\ UNCHANGED <<bvars, dvars, gen, svars, messages, callbacks, bubbles, sent>>

\* bot_client.send_message_with_buttons(bot_self_id, draft_message, buttons)
\* of regenerate_with_guidance (main.rs:738-758).
regenerate_publish(r, ok) ==
  /\ runs[r].pc = "republish"
  /\ LET target_id == bare_id(runs[r].peer) IN
       IF ok
         THEN /\ bubbles' = Append(bubbles,
                   [chat |-> bot_self_id,
                    text |-> rephrased_draft_message(runs[r].user.name,
                                                     runs[r].text),
                    buttons |-> {Token("approve", target_id),
                                 Token("rephrase", target_id),
                                 Token("reject", target_id)}])
              /\ runs' = [runs EXCEPT ![r].pc = "restore",
                                      ![r].message_id = Len(bubbles) + 1]
         ELSE /\ bubbles' = bubbles
              /\ runs' = [runs EXCEPT ![r].pc = "failed",
                            ![r].err = "Failed to send rephrased draft via bot"]
  /\ UNCHANGED <<bvars, dvars, gen, svars, messages, callbacks, sent>>

\* Store draft message and history for later retrieval (main.rs:760-765).
regenerate_store(r) ==
  /\ runs[r].pc = "restore"
  /\ LET target_id == bare_id(runs[r].peer) IN
       /\ draft_messages' = MapInsert(draft_messages, Token("approve", target_id),
                                      <<target_id, runs[r].text>>)
       /\ pending_rephrase' = MapInsert(pending_rephrase, target_id,
                                <<bot_self_id, runs[r].message_id, runs[r].history>>)
  /\ runs' = [runs EXCEPT ![r].pc = "done"]
  /\ UNCHANGED <<pending_tasks, dvars, gen, svars, messages, callbacks, bubbles,
                 sent>>

\* The for loop goes on to its next target, or the handler returns Ok.
NextTarget(h) ==
  IF Len(h.targets) > 1
    THEN [h EXCEPT !.pc = "pop", !.targets = Tail(h.targets)]
    ELSE [h EXCEPT !.pc = "done", !.targets = <<>>]

\* regenerate_with_guidance has returned to the handler (main.rs:648-659).
handle_bot_message_resume(m) ==
  /\ messages[m].pc = "regen"
  /\ runs[messages[m].run].pc \in {"done", "failed"}
  /\ messages' =
       IF runs[messages[m].run].pc = "done"
         THEN [messages EXCEPT ![m] = NextTarget(messages[m])]
         ELSE [messages EXCEPT ![m].pc = "report",
                               ![m].err = runs[messages[m].run].err]
  /\ UNCHANGED <<bvars, dvars, gen, svars, runs, callbacks, bubbles, sent>>

\* Send error message to user (main.rs:661-667); a failure of this send
\* ends the handler through `?`.
handle_bot_message_report(m, ok) ==
  /\ messages[m].pc = "report"
  /\ IF ok
       THEN /\ bubbles' = Append(bubbles,
                 [chat |-> messages[m].chat,
                  text |-> error_message(messages[m].err), buttons |-> {}])
            /\ messages' = [messages EXCEPT ![m] = NextTarget(messages[m])]
       ELSE /\ bubbles' = bubbles
            /\ messages' = [messages EXCEPT ![m].pc = "failed",
                              ![m].err = "Failed to send error message"]
  /\ UNCHANGED <<bvars, dvars, gen, svars, runs, callbacks, sent>>

SendOutcomes == {"ok", "resolve_peer failed", "Failed to send approved message"}

\* Steps of the timer tasks, the pipeline runs and the control-channel
\* handlers.
NextHandlers ==
  \/ \E t \in DOMAIN timers : timer_wake(t)
  \/ \E t \in DOMAIN timers : timer_fire(t)
  \/ \E r \in DOMAIN runs, raw \in RawHistories,
        failure \in PipelineFailures \cup {None} : pipeline_prepare(r, raw, failure)
  \/ \E r \in DOMAIN runs, ok \in BOOLEAN : pipeline_publish(r, ok)
  \/ \E r \in DOMAIN runs : pipeline_publish_returns(r)
  \/ \E r \in DOMAIN runs : pipeline_store(r)
  \/ \E t \in DOMAIN timers : timer_pipeline_cancelled(t)
  \/ \E c \in DOMAIN callbacks, ok \in BOOLEAN : handle_bot_callback_answer(c, ok)
  \/ \E c \in DOMAIN callbacks, outcome \in SendOutcomes :
        handle_bot_callback_send(c, outcome)
  \/ \E c \in DOMAIN callbacks, ok \in BOOLEAN : handle_bot_callback_edit(c, ok)
  \/ \E c \in DOMAIN callbacks : handle_bot_callback_cleanup(c)
  \/ \E m \in DOMAIN messages :
        \E keys \in KeyOrders(DOMAIN pending_rephrase) :
          handle_bot_message_snapshot(m, keys)
  \/ \E m \in DOMAIN messages : handle_bot_message_pop(m)

\* The polling loop dispatches a button press or an operator text.
NextDispatch ==
  \/ \E m \in DOMAIN bubbles : \E data \in bubbles[m].buttons :
        poll_bot_updates_callback(m, data)
  \/ \E text \in MessageTexts, from \in Senders :
        poll_bot_updates_message(text, from)

NextApproval ==
  \/ \E peer \in TrackedPeers : run_client_update(peer)
  \/ \E u \in DOMAIN updates : handle_update_cancel(u)
  \/ \E u \in DOMAIN updates : handle_update_spawn(u)
  \/ \E u \in DOMAIN updates : handle_update_insert(u)
  \/ NextHandlers
  \/ NextDispatch

SpecApproval == Init /\ [][NextApproval]_vars

\* ------------------------------------------------------------------------
\* regenerate_with_guidance on its own: the function is entered with
\* arguments drawn from bounded sets, as from the for loop of
\* handle_bot_message after a successful lookup.
\* ------------------------------------------------------------------------

\* Histories a pipeline run can have captured (never empty, main.rs:358).
CapturedHistories ==
  {history_buf(Limit(raw, history_limit), <<>>) : raw \in RawHistories} \ {<<>>}

InitRephrase ==
  /\ pending_tasks = EmptyMap
  /\ pending_rephrase = EmptyMap
  /\ updates = <<>>
  /\ timers = <<>>
  /\ invocations = [p \in InboundPeers \cup DOMAIN users |-> 0]
  /\ gen = GenIdle
  /\ callbacks = <<>>
  /\ sent = <<>>
  /\ bot_updates = ServiceStart
  /\ poller = PollerStart
  /\ mutex = MutexFree
  /\ shutdown = "running"
  /\ \E i \in DOMAIN ConfigUsers, history \in CapturedHistories,
        guidance \in MessageTexts \ {""}, prior \in BOOLEAN :
       LET user == ConfigUsers[i] IN
         /\ draft_messages =
              IF prior THEN MapInsert(EmptyMap, Token("approve", user.id),
                                      <<user.id, response_text(0)>>)
              ELSE EmptyMap
         /\ bubbles = << [chat |-> bot_self_id, text |-> RephrasePrompt,
                          buttons |-> {Token("approve", user.id),
                                       Token("rephrase", user.id),
                                       Token("reject", user.id)}] >>
         /\ runs = << [peer |-> PeerIdUser(user.id), user |-> user,
                       timer |-> 0, guidance |-> guidance, pc |-> "regenerate",
                       prompt |-> guidance_system_prompt(base_system_prompt,
                                                         user, guidance),
                       err |-> None, history |-> history, text |-> NoText,
                       message_id |-> 0] >>
         /\ messages = << [text |-> guidance, from |-> bot_self_id,
                           chat |-> bot_self_id, pc |-> "regen", err |-> None,
                           targets |-> <<user.id>>, target_id |-> user.id,
                           popped |-> TRUE, history |-> history, run |-> 1] >>

NextRephrase ==
  \/ \E r \in DOMAIN runs, ok \in BOOLEAN : regenerate_generate(r, ok)
  \/ \E r \in DOMAIN runs, ok \in BOOLEAN : regenerate_publish(r, ok)
  \/ \E r \in DOMAIN runs : regenerate_store(r)
  \/ \E m \in DOMAIN messages : handle_bot_message_resume(m)
  \/ \E m \in DOMAIN messages, ok \in BOOLEAN : handle_bot_message_report(m, ok)

SpecRephrase == InitRephrase /\ [][NextRephrase]_vars


\* ------------------------------------------------------------------------
\* Properties of the approval state machine
\* ------------------------------------------------------------------------
IsApprove(c) == starts_with(callbacks[c].data, "approve")

IsReject(c) == starts_with(callbacks[c].data, "reject")

\* The handler has answered the press and acted on its token.
Acted(c) ==
  /\ callbacks[c].pc # "answer"
  /\ callbacks[c].err # "Failed to answer callback query"

SentBy(c) == {i \in DOMAIN sent : sent[i].by = c}

\* C6: an Approve press on the bubble of a draft that a newer stored draft
\* of the same target has replaced resolves to "Draft message not found":
\* the handler takes no draft and sends nothing.
C6_StaleApproveNotFound ==
  \A c \in DOMAIN callbacks :
    (IsApprove(c) /\ callbacks[c].stale /\ Acted(c)) =>
      /\ callbacks[c].pc = "failed"
      /\ callbacks[c].err = "Draft message not found"
      /\ SentBy(c) = {}

\* C7: an approve press that finds its draft already taken fails with
\* "Draft message not found" and sends nothing; the text of one published
\* draft is taken by at most one handler and sent at most once.
C7_ConsumedDraftSentOnce ==
  /\ \A c \in DOMAIN callbacks :
       (IsApprove(c) /\ callbacks[c].found = "no") =>
         /\ callbacks[c].pc = "failed"
         /\ callbacks[c].err = "Draft message not found"
         /\ SentBy(c) = {}
  /\ \A c, d \in DOMAIN callbacks :
       (IsApprove(c) /\ IsApprove(d) /\ callbacks[c].found = "yes"
          /\ callbacks[d].found = "yes" /\ callbacks[c].text = callbacks[d].text)
         => c = d
  /\ \A i, j \in DOMAIN sent : sent[i].text = sent[j].text => i = j

\* Two approve presses of one bubble: one sent the draft, the other found it
\* consumed.
C7_Witness ==
  /\ Len(callbacks) = 2
  /\ IsApprove(1) /\ IsApprove(2)
  /\ callbacks[1].message_id = callbacks[2].message_id
  /\ \E c, d \in {1, 2} :
       /\ callbacks[c].pc = "done"
       /\ callbacks[d].pc = "failed"
       /\ callbacks[d].err = "Draft message not found"
       /\ Len(sent) = 1
       /\ sent[1].by = c

\* C8: when an approve handler completes successfully, the draft entry and
\* the pending-rephrase entry of its target are absent, its text has been
\* sent to the target and the pressed bubble shows the sent text.
ApproveCompletes(c) ==
  /\ c \in DOMAIN callbacks
  /\ IsApprove(c)
  /\ callbacks[c].pc = "cleanup"
  /\ callbacks'[c].pc = "done"

C8_ApprovePostcondition ==
  [][\A c \in DOMAIN callbacks :
       ApproveCompletes(c) =>
         /\ ~HasKey(pending_rephrase', callbacks[c].target_id)
         /\ ~HasKey(draft_messages', callbacks[c].data)
         /\ \E i \in DOMAIN sent' :
              /\ sent'[i].text = callbacks[c].text
              /\ sent'[i].target = PeerIdUser(callbacks[c].target_id)
         /\ bubbles'[callbacks[c].message_id].text = callbacks[c].text]_vars

\* C9: the reject handler removes the draft entry and the pending-rephrase
\* entry of its target in one step, before the bubble edit, so they are gone
\* whether or not the edit succeeds.
RejectRemoves(c) ==
  /\ c \in DOMAIN callbacks
  /\ IsReject(c)
  /\ callbacks[c].pc = "answer"
  /\ callbacks'[c].pc # "answer"
  /\ callbacks'[c].err # "Failed to answer callback query"

RejectEdits(c) ==
  /\ c \in DOMAIN callbacks
  /\ IsReject(c)
  /\ callbacks[c].pc = "edit"
  /\ callbacks'[c].pc # "edit"

C9_RejectRemovesBoth ==
  [][\A c \in DOMAIN callbacks :
       /\ RejectRemoves(c) =>
            /\ ~HasKey(draft_messages', Token("approve", parse_target(callbacks[c].data)))
            /\ ~HasKey(pending_rephrase', parse_target(callbacks[c].data))
            /\ callbacks'[c].pc = "edit"
       /\ RejectEdits(c) =>
            /\ callbacks'[c].pc \in {"done", "failed"}
            /\ UNCHANGED <<draft_messages, pending_rephrase>>]_vars

\* A reject handler removed a published draft and its rephrase context and
\* then failed to edit the bubble; both entries are absent.
C9_Witness ==
  \E c \in DOMAIN callbacks :
    /\ IsReject(c)
    /\ callbacks[c].found = "yes"
    /\ callbacks[c].pc = "failed"
    /\ callbacks[c].err = "Failed to edit message"
    /\ ~HasKey(draft_messages, Token("approve", callbacks[c].target_id))
    /\ ~HasKey(pending_rephrase, callbacks[c].target_id)

\* C10: of an approve and a reject handler racing for one draft, the one
\* that finds the draft gone fails with "Draft message not found" and does
\* nothing more; in particular it does not edit the bubble.
C10_RaceLoserNotFound ==
  \A c \in DOMAIN callbacks :
    ((IsApprove(c) \/ IsReject(c)) /\ callbacks[c].found = "no"
       /\ \E d \in DOMAIN callbacks :
            /\ d # c
            /\ IsApprove(d) \/ IsReject(d)
            /\ callbacks[d].message_id = callbacks[c].message_id
            /\ callbacks[d].found = "yes") =>
      /\ callbacks[c].pc = "failed"
      /\ callbacks[c].err = "Draft message not found"
      /\ bubbles[callbacks[c].message_id].text # RejectedMarker

\* ------------------------------------------------------------------------
\* Operator guidance properties
\* ------------------------------------------------------------------------

\* Handler m took the PendingRephrase entry of its current target.
Popped(m) == messages[m].popped

\* The operator has pressed rephrase:<id> and the bubble became the prompt.
RephrasePressed(target_id) ==
  \E c \in DOMAIN callbacks :
    /\ callbacks[c].data = Token("rephrase", target_id)
    /\ callbacks[c].pc = "done"

\* C11: with a draft pending for a tracked user, after rephrase:<id> was
\* pressed and the operator sent a guidance text, the handler that took
\* the pending entry has called the generation with the user's system
\* prompt plus "Additional guidance: <text>" and the captured history, and
\* it completes only with the new draft stored.
C11_RephraseRegenerates ==
  \A m \in DOMAIN messages :
    (/\ Popped(m)
     /\ IsTracked(PeerIdUser(messages[m].target_id))
     /\ RephrasePressed(messages[m].target_id)) =>
      /\ messages[m].run \in DOMAIN runs
      /\ runs[messages[m].run].prompt =
           <<users[PeerIdUser(messages[m].target_id)].system_prompt,
             "\n\nAdditional guidance: ", messages[m].text>>
      /\ runs[messages[m].run].history = messages[m].history
      /\ messages[m].pc = "done" => runs[messages[m].run].pc = "done"

\* The error texts the handler has sent to chat `chat`.
ErrorBubbles(chat) ==
  {i \in DOMAIN bubbles : bubbles[i].chat = chat /\ bubbles[i].text[1] = "error"}

GuidanceFailures ==
  {"No pending rephrase", "User not found",
   "Failed to generate AI reply with guidance",
   "Failed to send rephrased draft via bot"}

\* C12: a handler of an operator guidance text that met a failure (no
\* pending-rephrase context, user not resolved, generation failed, publish
\* failed) and is past its reporting step has sent an error text message to
\* the operator on the control channel.
C12_GuidanceFailureReported ==
  \A m \in DOMAIN messages :
    (messages[m].err \in GuidanceFailures /\ messages[m].pc # "report") =>
      ErrorBubbles(messages[m].chat) # {}

\* ------------------------------------------------------------------------
\* Error handling of the pipeline and of the control-channel handlers
\* ------------------------------------------------------------------------

\* Run r was started by a debounce timer (process_ai_draft).
DebounceRun(r) == runs[r].guidance = None

\* Run r takes a step.
RunSteps(r) == runs'[r] # runs[r]

TablesChange == draft_messages' # draft_messages \/ pending_rephrase' # pending_rephrase

\* C13: the step in which a debounce-triggered run fails (resolution,
\* fetch, generation or publish) leaves both tables as they are, and the
\* only step of a run that writes a table is the one after
\* send_message_with_buttons has returned the id of the published bubble;
\* a run that failed made no such step.
C13_FailedRunWritesNothing ==
  [][\A r \in DOMAIN runs :
       DebounceRun(r) =>
         /\ (RunSteps(r) /\ runs'[r].pc \in {"failed", "skipped"}) =>
              UNCHANGED <<draft_messages, pending_rephrase>>
         /\ (RunSteps(r) /\ TablesChange) =>
              /\ runs[r].pc = "store"
              /\ runs[r].message_id \in DOMAIN bubbles
              /\ runs'[r].pc = "done"]_vars

\* A run failed at the publish step while an earlier run's draft is in
\* both tables.
C13_Witness ==
  \E r \in DOMAIN runs :
    /\ DebounceRun(r)
    /\ runs[r].pc = "failed"
    /\ runs[r].err = "Failed to send draft via bot"
    /\ HasKey(draft_messages, Token("approve", bare_id(runs[r].peer)))
    /\ HasKey(pending_rephrase, bare_id(runs[r].peer))
    /\ draft_messages[Token("approve", bare_id(runs[r].peer))][2] # runs[r].text

\* The errors for which a control-channel handler abandons its event after
\* its acknowledgement.
AbandonErrors ==
  {"resolve_peer failed", "Failed to send approved message",
   "Failed to edit message"}

\* C14: a control-channel handler that abandoned its event because of an
\* error (resolution or send failure of an approve, a failed bubble edit,
\* a failure while processing guidance) has removed nothing from the draft
\* table or the pending-rephrase table: both are as the handler found them.
C14_AbandonedEventLeavesTables ==
  /\ \A c \in DOMAIN callbacks :
       (callbacks[c].pc = "failed" /\ callbacks[c].err \in AbandonErrors) =>
         callbacks[c].found # "yes"
  /\ \A m \in DOMAIN messages :
       messages[m].pc = "failed" => ~messages[m].popped

\* ------------------------------------------------------------------------
\* The BotState mutex: which program points take it, release it, suspend
\* ------------------------------------------------------------------------
\* Each task kind is the control-flow graph of its lock blocks and
\* suspension points.  A node is one operation: "lock" is
\* `state.lock().unwrap()`, "unlock" the end of that guard's scope, "await"
\* a `.await` on I/O, a sleep or a generation; `line` is the source line of
\* the lock() call or of the .await, `next` the nodes control can reach
\* next, Return standing for the end of the task.

Return == 0

Node(op, line, next) == [op |-> op, line |-> line, next |-> next]

\* handle_update (main.rs:213-286): registry lookup, cancel, debounce
\* setting, insert; it never suspends.  An update that is no new message
\* returns at once, one from an untracked peer after the lookup.
handle_update_ops ==
  [entry |-> {1, Return},
   nodes |-> <<Node("lock", 230, {2}), Node("unlock", 230, {3, Return}),
               Node("lock", 244, {4}), Node("unlock", 244, {5}),
               Node("lock", 255, {6}), Node("unlock", 255, {7}),
               Node("lock", 279, {8}), Node("unlock", 279, {Return})>>]

\* The timer task (main.rs:259-277) with process_ai_draft_with_guidance
\* (main.rs:297-434): sleep, remove, configuration read, resolve_peer,
\* one await per fetched message, one or more awaits of the generation,
\* publish, store.  A failed step and an empty history end the task.
timer_task_ops ==
  [entry |-> {1},
   nodes |-> <<Node("await", 260, {2}),
               Node("lock", 263, {3}), Node("unlock", 263, {4}),
               Node("lock", 314, {5}), Node("unlock", 314, {6}),
               Node("await", 339, {7, Return}),
               Node("await", 344, {7, 8, Return}),
               Node("await", 395, {8, 9, Return}),
               Node("await", 419, {10, Return}),
               Node("lock", 424, {11}), Node("unlock", 424, {Return})>>]

\* handle_bot_callback with the approve branch holding its lock from the
\* take to the cleanup.
handle_bot_callback_ops_lock_held ==
  [entry |-> {1, Return},
   nodes |-> <<Node("await", 492, {2, 9, 10, Return}),
               Node("lock", 498, {4}), Node("unlock", 498, {4, Return}),
               Node("await", 509, {5, Return}),
               Node("await", 512, {6, Return}),
               Node("await", 518, {8, Return}),
               Node("lock", 523, {8}), Node("unlock", 523, {Return}),
               Node("await", 549, {Return}),
               Node("lock", 564, {11}), Node("unlock", 564, {12}),
               Node("await", 577, {Return})>>]

\* handle_bot_callback (main.rs:478-582): a press without data or message
\* returns at once; answer; then approve (take the draft, resolve_peer,
\* send_message, edit_message_text, cleanup), rephrase (edit_message_text),
\* reject (remove both, edit_message_text) or none of them.  A failed step
\* and a missing draft end the task.
handle_bot_callback_ops ==
  [entry |-> {1, Return},
   nodes |-> <<Node("await", 492, {2, 9, 10, Return}),
               Node("lock", 498, {3}), Node("unlock", 498, {4, Return}),
               Node("await", 509, {5, Return}),
               Node("await", 512, {6, Return}),
               Node("await", 518, {7, Return}),
               Node("lock", 523, {8}), Node("unlock", 523, {Return}),
               Node("await", 549, {Return}),
               Node("lock", 564, {11}), Node("unlock", 564, {12}),
               Node("await", 577, {Return})>>]

\* handle_bot_message (main.rs:584-672) with regenerate_with_guidance
\* (main.rs:674-770): a message without text returns at once; bot_self_id;
\* key snapshot; then once per pending target: pop and lookup,
\* configuration read, one or more awaits of the generation, publish,
\* store, and the error report after a failed generation or publish.
handle_bot_message_ops ==
  [entry |-> {1, Return},
   nodes |-> <<Node("lock", 596, {2}), Node("unlock", 596, {3, Return}),
               Node("lock", 609, {4}), Node("unlock", 609, {5, Return}),
               Node("lock", 624, {6}), Node("unlock", 624, {7, Return}),
               Node("lock", 691, {8}), Node("unlock", 691, {9, 13}),
               Node("await", 733, {9, 10, 13}),
               Node("await", 757, {11, 13}),
               Node("lock", 762, {12}), Node("unlock", 762, {5, Return}),
               Node("await", 667, {5, Return})>>]

TaskKinds ==
  {"handle_update", "timer", "handle_bot_callback", "handle_bot_message"}

Program(kind) ==
  CASE kind = "handle_update" -> handle_update_ops
    [] kind = "timer" -> timer_task_ops
    [] kind = "handle_bot_callback" -> handle_bot_callback_ops
    [] kind = "handle_bot_message" -> handle_bot_message_ops

\* The nodes task t can execute next (Return: it can return now).
NextOps(t) ==
  IF mutex.tasks[t].pc = 0 THEN Program(mutex.tasks[t].kind).entry
  ELSE Program(mutex.tasks[t].kind).nodes[mutex.tasks[t].pc].next

\* The operation of node n of task t's program.
OpOf(t, n) == Program(mutex.tasks[t].kind).nodes[n].op

\* tokio::spawn / tasks.spawn of a task of the given kind.
mutex_spawn(kind) ==
  /\ Len(mutex.tasks) < MaxTasks
  /\ mutex' = [mutex EXCEPT !.tasks =
                 Append(@, [kind |-> kind, pc |-> 0, status |-> "running"])]
  /\ UNCHANGED <<bvars, dvars, gen, avars, bot_updates, poller, shutdown>>

\* state.lock().unwrap() returns the guard once the mutex is free.
mutex_lock(t, n) ==
  /\ mutex.tasks[t].status = "running"
  /\ n \in NextOps(t) \ {Return}
  /\ OpOf(t, n) = "lock"
  /\ mutex.holder = 0
  /\ mutex' = [mutex EXCEPT !.holder = t, !.tasks[t].pc = n]
  /\ UNCHANGED <<bvars, dvars, gen, avars, bot_updates, poller, shutdown>>

\* The guard goes out of scope (the end of its block, or a `?` inside it).
mutex_unlock(t, n) ==
  /\ mutex.tasks[t].status = "running"
  /\ n \in NextOps(t) \ {Return}
  /\ OpOf(t, n) = "unlock"
  /\ mutex.holder = t
  /\ mutex' = [mutex EXCEPT !.holder = 0, !.tasks[t].pc = n]
  /\ UNCHANGED <<bvars, dvars, gen, avars, bot_updates, poller, shutdown>>

\* The task reaches a `.await` and is suspended.
mutex_suspend(t, n) ==
  /\ mutex.tasks[t].status = "running"
  /\ n \in NextOps(t) \ {Return}
  /\ OpOf(t, n) = "await"
  /\ mutex' = [mutex EXCEPT !.tasks[t].pc = n, !.tasks[t].status = "suspended"]
  /\ UNCHANGED <<bvars, dvars, gen, avars, bot_updates, poller, shutdown>>

\* The awaited future completes and the task goes on.
mutex_resume(t) ==
  /\ mutex.tasks[t].status = "suspended"
  /\ mutex' = [mutex EXCEPT !.tasks[t].status = "running"]
  /\ UNCHANGED <<bvars, dvars, gen, avars, bot_updates, poller, shutdown>>

\* The task returns (`?`, `return Ok(())`, the end of its body).
mutex_return(t) ==
  /\ mutex.tasks[t].status = "running"
  /\ Return \in NextOps(t)
  /\ mutex' = [mutex EXCEPT !.tasks[t].status = "returned"]
  /\ UNCHANGED <<bvars, dvars, gen, avars, bot_updates, poller, shutdown>>

\* handle.abort() (main.rs:247) drops a timer task at its await.
mutex_abort(t) ==
  /\ mutex.tasks[t].kind = "timer"
  /\ mutex.tasks[t].status = "suspended"
  /\ mutex' = [mutex EXCEPT !.tasks[t].status = "dropped"]
  /\ UNCHANGED <<bvars, dvars, gen, avars, bot_updates, poller, shutdown>>

NextLock ==
  \/ \E kind \in TaskKinds : mutex_spawn(kind)
  \/ \E t \in DOMAIN mutex.tasks :
       \E n \in 1..Len(Program(mutex.tasks[t].kind).nodes) : mutex_lock(t, n)
  \/ \E t \in DOMAIN mutex.tasks :
       \E n \in 1..Len(Program(mutex.tasks[t].kind).nodes) : mutex_unlock(t, n)
  \/ \E t \in DOMAIN mutex.tasks :
       \E n \in 1..Len(Program(mutex.tasks[t].kind).nodes) : mutex_suspend(t, n)
  \/ \E t \in DOMAIN mutex.tasks : mutex_resume(t)
  \/ \E t \in DOMAIN mutex.tasks : mutex_return(t)
  \/ \E t \in DOMAIN mutex.tasks : mutex_abort(t)

SpecLock == Init /\ [][NextLock]_vars

\* C15: no task holds the BotState lock while it is suspended at an await
\* (I/O, the debounce sleep, a generation request), and whenever the lock
\* is held its holder is running and its next operation is the release of
\* the guard, so a task waiting for the lock is never kept waiting by a
\* suspended or blocked holder.
C15_LockNotHeldAcrossAwait ==
  /\ \A t \in DOMAIN mutex.tasks :
       mutex.tasks[t].status # "running" => mutex.holder # t
  /\ mutex.holder # 0 =>
       /\ mutex.tasks[mutex.holder].status = "running"
       /\ \A n \in NextOps(mutex.holder) :
            n # Return /\ OpOf(mutex.holder, n) = "unlock"

\* A handle_bot_callback task is suspended at the send of its approve
\* branch, after its first lock block, while another task holds the lock.
C15_Witness ==
  \E t, u \in DOMAIN mutex.tasks :
    /\ mutex.tasks[t].kind = "handle_bot_callback"
    /\ mutex.tasks[t].status = "suspended"
    /\ mutex.tasks[t].pc = 5
    /\ mutex.holder = u
    /\ u # t

\* Run r's publish puts a bubble on the control channel.
PublishStep(r) ==
  \/ runs[r].pc = "publish" /\ runs'[r].pc = "publishing" /\ runs'[r].message_id # 0
  \/ runs[r].pc = "republish" /\ runs'[r].pc = "restore"

\* Run r executes its last lock block.
StoreStep(r) ==
  /\ runs[r].pc \in {"store", "restore"}
  /\ runs'[r].pc = "done"

\* C16: the bubble a run for peer id T publishes is in the control chat and
\* carries exactly the tokens approve:T, rephrase:T and reject:T, and
\* publishing writes no table; then one step sets Draft["approve:T"] to
\* (T, generated text) and PendingRephrase[T] to (control chat id, returned
\* message id, history used), over whatever was there for T, and leaves the
\* entries of other targets alone.
C16_PublishThenStoreBoth ==
  [][\A r \in DOMAIN runs :
       LET T == bare_id(runs[r].peer) IN
         /\ PublishStep(r) =>
              /\ runs'[r].message_id = Len(bubbles')
              /\ Len(bubbles') = Len(bubbles) + 1
              /\ bubbles'[Len(bubbles')].chat = bot_self_id
              /\ bubbles'[Len(bubbles')].buttons =
                   {<<"approve", ":", T>>, <<"rephrase", ":", T>>, <<"reject", ":", T>>}
              /\ UNCHANGED <<draft_messages, pending_rephrase>>
         /\ StoreStep(r) =>
              /\ DOMAIN draft_messages' = DOMAIN draft_messages \cup {<<"approve", ":", T>>}
              /\ draft_messages'[<<"approve", ":", T>>] = <<T, <<"reply", r>>>>
              /\ \A k \in DOMAIN draft_messages \ {<<"approve", ":", T>>} :
                   draft_messages'[k] = draft_messages[k]
              /\ DOMAIN pending_rephrase' = DOMAIN pending_rephrase \cup {T}
              /\ pending_rephrase'[T] =
                   <<bot_self_id, runs[r].message_id, runs[r].history>>
              /\ \A k \in DOMAIN pending_rephrase \ {T} :
                   pending_rephrase'[k] = pending_rephrase[k]
              /\ runs[r].history # <<>>]_vars

\* A second run for the same peer has stored over the first run's entries.
C16_Witness ==
  \E q, r \in DOMAIN runs :
    /\ q # r
    /\ runs[q].peer = runs[r].peer
    /\ runs[q].pc = "done" /\ runs[r].pc = "done"
    /\ runs[q].message_id < runs[r].message_id
    /\ draft_messages[Token("approve", bare_id(runs[r].peer))] =
         <<bare_id(runs[r].peer), runs[r].text>>
    /\ pending_rephrase[bare_id(runs[r].peer)][2] = runs[r].message_id

IsRephrase(c) == starts_with(callbacks[c].data, "rephrase")

\* C17: no step of the handler of a rephrase:<id> press changes the draft
\* table, the pending-rephrase table or the debounce handles, nor sends
\* anything into a conversation; the handler only acknowledges the press
\* and edits the pressed bubble, and what it writes there is the guidance
\* prompt.
C17_RephrasePressFrame ==
  [][\A c \in DOMAIN callbacks :
       (IsRephrase(c) /\ callbacks'[c] # callbacks[c]) =>
         /\ UNCHANGED <<draft_messages, pending_rephrase, pending_tasks, sent,
                        runs, messages>>
         /\ Len(bubbles') = Len(bubbles)
         /\ \A i \in DOMAIN bubbles :
              bubbles'[i] # bubbles[i] =>
                /\ i = callbacks[c].message_id
                /\ bubbles'[i] = [bubbles[i] EXCEPT !.text = <<"prompt", "Rephrase Mode">>]
         /\ callbacks'[c].pc \in {"edit", "done", "failed"}]_vars

\* A rephrase press was handled to the end: the bubble shows the guidance
\* prompt and the target's entries are still in both tables.
C17_Witness ==
  \E c \in DOMAIN callbacks :
    /\ IsRephrase(c)
    /\ callbacks[c].pc = "done"
    /\ bubbles[callbacks[c].message_id].text = RephrasePrompt
    /\ HasKey(draft_messages, Token("approve", callbacks[c].target_id))
    /\ HasKey(pending_rephrase, callbacks[c].target_id)

\* Handler m found targets pending and has returned.
GuidanceHandled(m) ==
  /\ messages[m].pc \in {"done", "failed"}
  /\ messages[m].target_id # 0

\* C18: a handler of an operator text that found k >= 1 targets pending
\* and has returned has reached the last of them, and for the target it
\* handled last it popped the entry and re-invoked the pipeline with that
\* target's captured history and the operator's text as guidance.
C18_EveryTargetRegenerated ==
  \A m \in DOMAIN messages :
    GuidanceHandled(m) =>
      /\ Len(messages[m].targets) <= 1
      /\ messages[m].popped
      /\ messages[m].run \in DOMAIN runs
      /\ runs[messages[m].run].peer = PeerIdUser(messages[m].target_id)
      /\ runs[messages[m].run].guidance = messages[m].text
      /\ runs[messages[m].run].history = messages[m].history

\* ------------------------------------------------------------------------
\* The control-channel polling loop: poll_bot_updates
\* ------------------------------------------------------------------------

\* bot::Update as main.rs uses it: update_id and the optional callback_query
\* and message (present or not).
BotUpdate(id, callback_query, message) ==
  [update_id |-> id, callback_query |-> callback_query, message |-> message]

\* The control-channel service receives an event and gives it the next
\* update_id.
bot_service_update(callback_query, message) ==
  /\ Len(bot_updates.log) < MaxBotUpdates
  /\ bot_updates' = [bot_updates EXCEPT !.log =
       Append(@, BotUpdate(Len(bot_updates.log) + 1, callback_query, message))]
  /\ UNCHANGED <<bvars, dvars, gen, avars, poller, mutex, shutdown>>

\* What getUpdates(offset) can return: the stored updates from `offset` on,
\* or, without an offset, the ones no earlier call has confirmed.
Available(offset) ==
  SelectSeq(bot_updates.log,
    LAMBDA u : IF offset = NoOffset THEN u.update_id > bot_updates.confirmed
               ELSE u.update_id >= offset[2])

\* A call with an offset confirms every update below it.
Confirmed(offset) ==
  IF offset # NoOffset /\ offset[2] - 1 > bot_updates.confirmed
    THEN offset[2] - 1 ELSE bot_updates.confirmed

\* bot_client.get_updates(offset).await? (main.rs:444): the service returns
\* the first n available updates, or the call fails and `?` ends the loop.
poll_get_updates(n, ok) ==
  /\ poller.pc = "get_updates"
  /\ n \in 0..Len(Available(poller.offset))
  /\ LET call == [offset |-> poller.offset, after |-> Len(poller.taken)]
         batch == SubSeq(Available(poller.offset), 1, n) IN
       IF ok
         THEN /\ poller' = [poller EXCEPT
                   !.pc = IF n = 0 THEN "get_updates" ELSE "dispatch",
                   !.batch = batch,
                   !.call = call,
                   !.delivered = @ \o batch]
              /\ bot_updates' = [bot_updates EXCEPT
                   !.confirmed = Confirmed(poller.offset)]
         ELSE /\ ~ok /\ n = 0
              /\ poller' = [poller EXCEPT !.pc = "stopped", !.call = call,
                                           !.stopped_after = Len(bubbles)]
              /\ bot_updates' = bot_updates
  /\ UNCHANGED <<bvars, dvars, gen, avars, mutex, shutdown>>

\* offset = Some(update.update_id) : the update itself, not the one after.
SameOffset(update) == SomeOffset(update.update_id)

\* offset = Some(update.update_id + 1)  (main.rs:447)
NextOffset(update) == SomeOffset(update.update_id + 1)

\* The handler tasks the loop body spawns for an update (main.rs:449-472).
Handlers(update) ==
  IF update.callback_query THEN <<"handle_bot_callback">>
  ELSE IF update.message THEN <<"handle_bot_message">>
  ELSE <<>>

\* One round of `for update in updates` (main.rs:446-473).
poll_dispatch ==
  /\ poller.pc = "dispatch"
  /\ LET update == Head(poller.batch) IN
       poller' = [poller EXCEPT
         !.offset = NextOffset(update),
         !.taken = Append(@, update),
         !.dispatched = @ \o [i \in DOMAIN Handlers(update) |->
                                [update_id |-> update.update_id,
                                 handler |-> Handlers(update)[i]]],
         !.batch = Tail(@),
         !.pc = IF Len(poller.batch) = 1 THEN "get_updates" ELSE "dispatch"]
  /\ UNCHANGED <<bvars, dvars, gen, avars, bot_updates, mutex, shutdown>>

NextPoll ==
  \/ \E callback_query, message \in BOOLEAN :
        bot_service_update(callback_query, message)
  \/ \E n \in 0..MaxBotUpdates, ok \in BOOLEAN : poll_get_updates(n, ok)
  \/ poll_dispatch

SpecPoll == Init /\ [][NextPoll]_vars

\* ------------------------------------------------------------------------
\* The polling task next to the pipeline: run_client spawns poll_bot_updates
\* once (main.rs:166-175) and goes on spawning handle_update tasks whether
\* or not it is still running; button presses and operator texts reach
\* their handlers only through the loop.
\* ------------------------------------------------------------------------
NextOutage ==
  \/ \E peer \in TrackedPeers : run_client_update(peer)
  \/ \E u \in DOMAIN updates : handle_update_cancel(u)
  \/ \E u \in DOMAIN updates : handle_update_spawn(u)
  \/ \E u \in DOMAIN updates : handle_update_insert(u)
  \/ NextHandlers
  \/ poller.pc = "get_updates" /\ NextDispatch
  \/ poll_get_updates(0, FALSE)

SpecOutage == Init /\ [][NextOutage]_vars

\* The update carries something the loop has a handler for.
Routed(update) == update.callback_query \/ update.message

UpdateIds(seq) == [i \in DOMAIN seq |-> seq[i].update_id]

\* The offset of the latest get_updates call is the update_id of the last
\* update taken before it, plus one (no offset before the first update).
OffsetFollowsLastTaken ==
  /\ poller.call.after = 0 => poller.call.offset = <<"None", 0>>
  /\ poller.call.after > 0 =>
       poller.call.offset = <<"Some", poller.taken[poller.call.after].update_id + 1>>
  /\ poller.pc = "get_updates" /\ poller.taken # <<>> =>
       poller.offset = <<"Some", poller.taken[Len(poller.taken)].update_id + 1>>

\* The loop takes the delivered updates in delivery order, none skipped.
TakenInDeliveryOrder == poller.taken \o poller.batch = poller.delivered

OffsetNeverDecreases == poller'.offset[2] >= poller.offset[2]

\* C19 as claimed: the offset of each get_updates call is the last taken
\* update_id + 1 and never decreases, and every delivered update is
\* dispatched to exactly one handler task, in delivery order.
C19_EveryUpdateOneHandler ==
  [][/\ OffsetFollowsLastTaken'
     /\ OffsetNeverDecreases
     /\ TakenInDeliveryOrder'
     /\ UpdateIds(poller'.dispatched) = UpdateIds(poller'.taken)]_vars

\* C19 amended: the same offsets, and every delivered update that carries
\* a callback query or a message is dispatched to exactly one handler task
\* (callback query first), in delivery order; an update that carries
\* neither is taken, advances the offset and is dispatched to no handler.
C19_RoutedUpdateOneHandler ==
  [][/\ OffsetFollowsLastTaken'
     /\ OffsetNeverDecreases
     /\ TakenInDeliveryOrder'
     /\ UpdateIds(poller'.dispatched) =
          UpdateIds(SelectSeq(poller'.taken, Routed))
     /\ \A i \in DOMAIN poller'.dispatched :
          \E j \in DOMAIN poller'.taken :
            /\ poller'.taken[j].update_id = poller'.dispatched[i].update_id
            /\ poller'.dispatched[i].handler =
                 IF poller'.taken[j].callback_query THEN "handle_bot_callback"
                 ELSE "handle_bot_message"]_vars

\* Two batches were taken: a later get_updates call passed an offset, and
\* among the taken updates are a callback query, a message and one that
\* carries neither.
C19_Witness ==
  /\ poller.call.after >= 2
  /\ poller.call.offset # NoOffset
  /\ Len(poller.taken) > poller.call.after
  /\ \E i, j, k \in DOMAIN poller.taken :
       /\ poller.taken[i].callback_query
       /\ poller.taken[j].message /\ ~poller.taken[j].callback_query
       /\ ~Routed(poller.taken[k])
  /\ Len(poller.dispatched) = 2

\* ------------------------------------------------------------------------
\* Shutdown: the end of run_client's loop and of the process
\* ------------------------------------------------------------------------

\* tokio::signal::ctrl_c() completes and the loop breaks (main.rs:182-185):
\* no further update is taken from the stream.
run_client_ctrl_c ==
  /\ shutdown = "running"
  /\ shutdown' = "stopping"
  /\ UNCHANGED <<bvars, dvars, gen, avars, bot_updates, poller, mutex>>

\* handle.quit(), pool_task.await and `Ok(())` (main.rs:207-210): run_client
\* returns without joining `tasks`, main returns, and the runtime shuts
\* down.
run_client_exit ==
  /\ shutdown = "stopping"
  /\ shutdown' = "exited"
  /\ UNCHANGED <<bvars, dvars, gen, avars, bot_updates, poller, mutex>>

\* The runtime that is shutting down drops a task that is suspended at an
\* await (the debounce sleep, or an await of the pipeline): the task is
\* never polled again.
runtime_drop_timer(t) ==
  /\ shutdown = "exited"
  /\ \/ /\ timers[t].pc = "sleep"
        /\ runs' = runs
     \/ /\ timers[t].pc = "pipeline"
        /\ \E r \in DOMAIN runs :
             /\ runs[r].timer = t
             /\ runs[r].pc \in {"fetch", "publishing"}
             /\ runs' = [runs EXCEPT ![r].pc = "dropped"]
  /\ timers' = [timers EXCEPT ![t].pc = "dropped"]
  /\ UNCHANGED <<bvars, updates, invocations, gen, callbacks, messages, bubbles,
                 sent, svars>>

\* A task that is running goes on to its next await, or to its end, also
\* while the process ends: a handle_update task, a timer task whose sleep
\* has returned, a pipeline whose generation or publish has returned.  What
\* waits for a
\* timer or for the network is not resumed.
NextShutdown ==
  \/ \E peer \in InboundPeers : shutdown = "running" /\ run_client_update(peer)
  \/ run_client_ctrl_c
  \/ run_client_exit
  \/ \E u \in DOMAIN updates : handle_update_cancel(u)
  \/ \E u \in DOMAIN updates : handle_update_spawn(u)
  \/ \E u \in DOMAIN updates : handle_update_insert(u)
  \/ \E t \in DOMAIN timers : shutdown # "exited" /\ timer_wake(t)
  \/ \E t \in DOMAIN timers : timer_fire(t)
  \/ \E r \in DOMAIN runs, raw \in RawHistories,
        failure \in PipelineFailures \cup {None} :
          shutdown # "exited" /\ pipeline_prepare(r, raw, failure)
  \/ \E r \in DOMAIN runs, ok \in BOOLEAN : pipeline_publish(r, ok)
  \/ \E r \in DOMAIN runs : shutdown # "exited" /\ pipeline_publish_returns(r)
  \/ \E r \in DOMAIN runs : pipeline_store(r)
  \/ \E t \in DOMAIN timers : shutdown # "exited" /\ timer_pipeline_cancelled(t)
  \/ \E t \in DOMAIN timers : runtime_drop_timer(t)

SpecShutdown == Init /\ [][NextShutdown]_vars

\* C20: the process exits only after every in-flight task has run to
\* completion: when run_client has returned no debounce timer is still
\* sleeping and no pipeline run is still waiting for the network, and
\* shutdown drops no such task.
C20_ShutdownJoinsTasks ==
  /\ shutdown = "exited" =>
       \A t \in DOMAIN timers : timers[t].pc \notin {"sleep", "pipeline"}
  /\ \A t \in DOMAIN timers : timers[t].pc # "dropped"

\* ------------------------------------------------------------------------
\* Further properties of the debounce scheduler
\* ------------------------------------------------------------------------

\* Timer t executes its lock block: pending_tasks.remove(&peer.id).
TimerFires(t) == timers[t].pc = "woke" /\ timers'[t].pc = "pipeline"

\* C21: the entry a firing debounce timer removes from pending_tasks is its
\* own handle, never the handle of a newer timer of the peer, so a newer
\* timer that was registered stays registered (cancellable) while it
\* sleeps.
C21_TimerRemovesOwnHandle ==
  [][\A t \in DOMAIN timers :
       (TimerFires(t) /\ HasKey(pending_tasks, timers[t].peer)) =>
         pending_tasks[timers[t].peer] = t]_vars

\* ------------------------------------------------------------------------
\* Further properties of the approval state machine
\* ------------------------------------------------------------------------

\* A rephrase:<id> press for the target has been dispatched.
AwaitingGuidance(target_id) ==
  \E c \in DOMAIN callbacks : callbacks[c].data = Token("rephrase", target_id)

\* C22: operator guidance touches a target only when a rephrase:<id> press
\* for it came first: a handler of an operator text pops the target's
\* PendingRephrase entry, and a generation with guidance is requested for
\* the target, only after such a press.
C22_GuidanceOnlyAfterRephrasePress ==
  /\ \A m \in DOMAIN messages :
       messages[m].popped => AwaitingGuidance(messages[m].target_id)
  /\ \A r \in DOMAIN runs :
       runs[r].guidance # None => AwaitingGuidance(bare_id(runs[r].peer))

\* C23: after the pipeline run of a debounce trigger has failed,
\* pending_tasks holds no handle created by that trigger, and the peer's
\* pipeline is invoked no more often than the peer sent messages (no
\* retry, no re-armed timer).
C23_FailedRunLeavesNoHandle ==
  \A t \in DOMAIN timers :
    timers[t].failed =>
      /\ \A p \in DOMAIN pending_tasks : pending_tasks[p] # t
      /\ invocations[timers[t].peer] <= Cardinality(ArrivalsOf(timers[t].peer))
      /\ Cardinality(TimersOf(timers[t].peer)) <= Cardinality(ArrivalsOf(timers[t].peer))

\* Run r has completed the fetch (it was not dropped during it) with a
\* history in which no message has text.
FetchedNothingToAnswer(r) ==
  /\ runs[r].pc = "fetch"
  /\ runs'[r].pc \notin {"fetch", "cancelled", "dropped"}
  /\ runs'[r].err \notin {"Could not resolve peer to fetch history", "fetch failed"}
  /\ \A i \in DOMAIN runs'[r].fetched : runs'[r].fetched[i].text = ""

\* C24: a debounce-triggered run whose fetched history holds no message
\* with text ends there with success: no error value, no generation (no
\* text, no generation error), no bubble published, both tables unchanged;
\* and the run takes no further step.
C24_EmptyHistoryEndsSilently ==
  [][\A r \in DOMAIN runs :
       DebounceRun(r) =>
         /\ FetchedNothingToAnswer(r) =>
              /\ runs'[r].pc = "skipped"
              /\ runs'[r].err = None
              /\ runs'[r].text = <<"none", 0>>
              /\ runs'[r].message_id = 0
              /\ UNCHANGED <<bubbles, draft_messages, pending_rephrase, sent>>
         /\ runs[r].pc = "skipped" => runs'[r] = runs[r]]_vars

\* A run ended silently on a history of one message without text while an
\* earlier run's draft is in both tables.
C24_Witness ==
  \E r \in DOMAIN runs :
    /\ DebounceRun(r)
    /\ runs[r].pc = "skipped"
    /\ Len(runs[r].fetched) = 1
    /\ runs[r].fetched[1].text = ""
    /\ HasKey(draft_messages, Token("approve", bare_id(runs[r].peer)))
    /\ HasKey(pending_rephrase, bare_id(runs[r].peer))

\* Run r is the one whose store step wrote both entries of target T.
WroteBoth(r, T) ==
  /\ DebounceRun(r)
  /\ runs[r].pc = "done"
  /\ bare_id(runs[r].peer) = T
  /\ draft_messages[Token("approve", T)] = <<T, runs[r].text>>
  /\ pending_rephrase[T] = <<bot_self_id, runs[r].message_id, runs[r].history>>

\* Handler c of a press on bubble m has carried out its edit of the bubble.
EditedBy(c, m) ==
  /\ callbacks[c].message_id = m
  /\ callbacks[c].pc \in {"cleanup", "done"}

\* C25 as stated: whenever a target has both a draft_messages entry and a
\* pending_rephrase entry, one publish wrote both of them and the bubble
\* located by pending_rephrase shows the text stored in draft_messages.
C25_PairShowsStoredDraft ==
  \A p \in TrackedPeers :
    LET T == bare_id(p) IN
      (HasKey(draft_messages, Token("approve", T)) /\ HasKey(pending_rephrase, T)) =>
        \E r \in DOMAIN runs :
          /\ WroteBoth(r, T)
          /\ runs[r].message_id \in DOMAIN bubbles
          /\ bubbles[runs[r].message_id].chat = bot_self_id
          /\ bubbles[runs[r].message_id].text =
               draft_message(runs[r].user.name, runs[r].text)

\* C25 amended: whenever a target has both a draft_messages entry and a
\* pending_rephrase entry, one completed run wrote both of them in one
\* store step, and the bubble location in pending_rephrase is the bubble
\* that this run published in the control chat for the text in
\* draft_messages. The bubble shows that draft as long as no handler of a
\* press on this bubble has edited it; once one has, the bubble shows what
\* such a handler wrote.
C25_PairFromSamePublish ==
  \A p \in TrackedPeers :
    LET T == bare_id(p) IN
      (HasKey(draft_messages, Token("approve", T)) /\ HasKey(pending_rephrase, T)) =>
        \E r \in DOMAIN runs :
          LET m == runs[r].message_id IN
            /\ WroteBoth(r, T)
            /\ m \in DOMAIN bubbles
            /\ bubbles[m].chat = bot_self_id
            /\ IF \E c \in DOMAIN callbacks : EditedBy(c, m)
                 THEN \E c \in DOMAIN callbacks :
                        /\ EditedBy(c, m)
                        /\ bubbles[m].text = callbacks[c].text
                 ELSE bubbles[m].text = draft_message(runs[r].user.name, runs[r].text)

\* Both entries of a target are present, written by the store step of one
\* run, and the bubble this run published no longer shows the draft: a
\* reject press on the bubble was handled before the run stored its
\* entries, and the bubble shows the rejection marker.
C25_Witness ==
  \E r \in DOMAIN runs :
    /\ HasKey(draft_messages, Token("approve", bare_id(runs[r].peer)))
    /\ HasKey(pending_rephrase, bare_id(runs[r].peer))
    /\ WroteBoth(r, bare_id(runs[r].peer))
    /\ bubbles[runs[r].message_id].text = RejectedMarker
    /\ \E c \in DOMAIN callbacks :
         /\ EditedBy(c, runs[r].message_id)
         /\ starts_with(callbacks[c].data, "reject")

\* No pipeline run and no control-channel handler is in flight.
HandlersQuiescent ==
  /\ \A r \in DOMAIN runs : runs[r].pc \in {"done", "failed", "skipped", "cancelled"}
  /\ \A c \in DOMAIN callbacks : callbacks[c].pc \in {"done", "failed"}
  /\ \A m \in DOMAIN messages : messages[m].pc \in {"done", "failed", "ignored"}

\* C26: in every quiescent state, also after handlers that ended with an
\* error, a target has a draft_messages entry exactly when it has a
\* pending_rephrase entry.
C26_QuiescentTablesAgree ==
  HandlersQuiescent =>
    \A p \in TrackedPeers :
      HasKey(draft_messages, Token("approve", bare_id(p)))
        <=> HasKey(pending_rephrase, bare_id(p))

\* Every message sent into a conversation is the pair its approve handler
\* took, and a completed run for that target generated and published it.
SentWasDrafted ==
  \A i \in DOMAIN sent :
    LET c == sent[i].by IN
      /\ IsApprove(c)
      /\ callbacks[c].found = "yes"
      /\ sent[i].target = PeerIdUser(callbacks[c].target_id)
      /\ sent[i].text = callbacks[c].text
      /\ callbacks[c].target_id = parse_target(callbacks[c].data)
      /\ \E r \in DOMAIN runs :
           /\ DebounceRun(r)
           /\ runs[r].pc = "done"
           /\ runs[r].peer = sent[i].target
           /\ runs[r].text = sent[i].text
           /\ runs[r].message_id \in DOMAIN bubbles

\* The approve handler c takes a draft out of the table.
TakesDraft(c) ==
  /\ callbacks[c].pc = "answer"
  /\ callbacks'[c].pc = "send"

\* C27: every text the approve handler sends into a target's conversation
\* was generated for that target by a run that published it in a draft
\* bubble and stored it; the handler sends the (target_id, text) pair it
\* removed from draft_messages, to that target and to no other.
C27_ApproveSendsRemovedDraft ==
  [][/\ SentWasDrafted'
     /\ \A c \in DOMAIN callbacks :
          TakesDraft(c) =>
            /\ HasKey(draft_messages, callbacks[c].data)
            /\ ~HasKey(draft_messages', callbacks[c].data)
            /\ <<callbacks'[c].target_id, callbacks'[c].text>> =
                 draft_messages[callbacks[c].data]]_vars

\* Drafts for two targets were stored and the approved one was sent to its
\* own target while the other is still in the table.
C27_Witness ==
  \E i \in DOMAIN sent, r1, r2 \in DOMAIN runs :
    /\ runs[r1].pc = "done"
    /\ runs[r2].pc = "done"
    /\ runs[r1].peer # runs[r2].peer
    /\ sent[i].target = runs[r1].peer
    /\ sent[i].text = runs[r1].text
    /\ HasKey(draft_messages, Token("approve", bare_id(runs[r2].peer)))

\* The pending_rephrase entry of target T is the one run r stored, and r is
\* not the run whose draft the approve handler c took.
NewerPending(c, r) ==
  LET T == callbacks[c].target_id IN
    /\ DebounceRun(r)
    /\ runs[r].pc = "done"
    /\ bare_id(runs[r].peer) = T
    /\ runs[r].text # callbacks[c].text
    /\ HasKey(pending_rephrase, T)
    /\ pending_rephrase[T] = <<bot_self_id, runs[r].message_id, runs[r].history>>

\* C28: the cleanup of an approve handler removes only the pending_rephrase
\* entry of the draft it approved: an entry that a newer draft of the same
\* target stored while the handler was suspended is still there after the
\* handler has finished.
C28_CleanupKeepsNewerPending ==
  [][\A c \in DOMAIN callbacks :
       (callbacks[c].pc = "cleanup" /\ callbacks'[c].pc = "done") =>
         \A r \in DOMAIN runs :
           NewerPending(c, r) =>
             /\ HasKey(pending_rephrase', callbacks[c].target_id)
             /\ pending_rephrase'[callbacks[c].target_id] =
                  pending_rephrase[callbacks[c].target_id]]_vars

\* Runs r1 and r2 for one target have both completed successfully, r2
\* started after r1, and no run for the target started after r2.
BothCompleted(r1, r2) ==
  /\ r1 < r2
  /\ DebounceRun(r1) /\ DebounceRun(r2)
  /\ runs[r1].peer = runs[r2].peer
  /\ runs[r1].pc = "done" /\ runs[r2].pc = "done"
  /\ \A r \in DOMAIN runs : r > r2 => runs[r].peer # runs[r2].peer

\* C29: once two runs for the same target have both completed
\* successfully, the entries the tables hold for the target are the ones
\* written by the run that started last.
C29_LastStartedRunWins ==
  \A r1, r2 \in DOMAIN runs :
    BothCompleted(r1, r2) =>
      LET T == bare_id(runs[r2].peer) IN
        /\ HasKey(draft_messages, Token("approve", T)) =>
             draft_messages[Token("approve", T)] = <<T, runs[r2].text>>
        /\ HasKey(pending_rephrase, T) =>
             pending_rephrase[T] = <<bot_self_id, runs[r2].message_id, runs[r2].history>>

\* Run r published its bubble after poll_bot_updates had ended, and has
\* stored its draft.
PublishedAfterStop(r) ==
  /\ poller.pc = "stopped"
  /\ DebounceRun(r)
  /\ runs[r].pc = "done"
  /\ runs[r].message_id > poller.stopped_after

\* The target of run r has a pending draft and r's text was not sent.
StillPending(r) ==
  /\ HasKey(draft_messages, Token("approve", bare_id(runs[r].peer)))
  /\ HasKey(pending_rephrase, bare_id(runs[r].peer))
  /\ \A i \in DOMAIN sent : sent[i].text # runs[r].text

\* poll_bot_updates has ended and stays ended, and no handler task is
\* spawned for a button press or an operator text.
NothingDispatched ==
  poller.pc = "stopped" =>
    /\ poller'.pc = "stopped"
    /\ poller'.dispatched = poller.dispatched
    /\ Len(callbacks') = Len(callbacks)
    /\ Len(messages') = Len(messages)

\* C30: one failed get_updates call ends poll_bot_updates for good: from
\* then on no button press and no operator text is dispatched, although
\* pipeline runs go on, and a draft published after the failure stays
\* pending (its entries stay in both tables and it is never sent).
C30_OutageKeepsDraftsPending ==
  [][/\ NothingDispatched
     /\ \A r \in DOMAIN runs :
          (PublishedAfterStop(r) /\ poller'.pc = "stopped") => StillPending(r)']_vars

====
